---- MODULE Spec2Model ----
(***************************************************************************)
(* Model of the volatility watcher (src/main.py): one run of main() is a   *)
(* pass.  A pass walks INDEX_TICKERS (fetch, upsert, record the close),    *)
(* then evaluate_alerts() loads the enabled alert rules and, rule by rule, *)
(* compares the close with the threshold, mails on a False -> True edge    *)
(* and writes last_result (and last_triggered_at) back to the rule.        *)
(*                                                                         *)
(* External calls that can fail are nondeterministic: the price fetch,     *)
(* the upsert, the mail transport and the rule update.                     *)
(*                                                                         *)
(* Spec        one run of main() at a time, any mail settings in .env      *)
(* SpecReeval  Spec plus a second call of evaluate_alerts on the same dict *)
(* SpecStore   the ingestion loop over two trading days, no enabled rule   *)
(* SpecConc    two runs of main() that overlap                             *)
(***************************************************************************)
EXTENDS Integers, Sequences, FiniteSets, TLC

\* ---------------------------------------------------------------- bounds
MaxPasses == 3      \* number of runs of main() explored
MaxPrice == 2       \* closes are drawn from 1..MaxPrice

Prices == 1..MaxPrice

\* the trading day of the latest observation; the rule engine never reads it
Dates == {"2025-01-06"}

\* the processes that may run main(); Spec runs one pass at a time
Procs == {1, 2}
SeqProcs == {1}

\* ------------------------------------------------------- program constants
\* INDEX_TICKERS in iteration (insertion) order, logical names only
INDEX_TICKERS == <<"VIX", "NIKKEI_VI">>

Symbols == {INDEX_TICKERS[i] : i \in 1..Len(INDEX_TICKERS)}

\* latest_close.get(symbol) returns None for a missing key; closes are >= 1
NoPrice == 0

\* last_triggered_at of a rule that was never written
NoTime == 0

\* the rows of alert_rules as they are created externally: last_result and
\* last_triggered_at are not set yet
RuleIds == 1..4

InitialRules ==
  [r \in RuleIds |->
     CASE r = 1 -> [id |-> 1, symbol_code |-> "VIX", direction |-> ">=",
                    threshold |-> 2, severity |-> "warning", email |-> "a@x",
                    enabled |-> TRUE, last_result |-> "None",
                    last_triggered_at |-> NoTime]
       [] r = 2 -> [id |-> 2, symbol_code |-> "NIKKEI_VI", direction |-> ">=",
                    threshold |-> 2, severity |-> "None", email |-> "b@x",
                    enabled |-> TRUE, last_result |-> "None",
                    last_triggered_at |-> NoTime]
       [] r = 3 -> [id |-> 3, symbol_code |-> "VIX", direction |-> "<=",
                    threshold |-> 2, severity |-> "notice", email |-> "a@x",
                    enabled |-> TRUE, last_result |-> "None",
                    last_triggered_at |-> NoTime]
       [] OTHER -> [id |-> 4, symbol_code |-> "NIKKEI_VI", direction |-> ">=",
                    threshold |-> 2, severity |-> "notice", email |-> "b@x",
                    enabled |-> FALSE, last_result |-> "None",
                    last_triggered_at |-> NoTime]]

\* ------------------------------------------------------------------ state
VARIABLES
  volatility_prices,  \* the price table: a set of rows [symbol, date, close]
  alert_rules,        \* the rule table: rule id -> row
  clock,              \* number of passes started; also the UTC "now"
  pc,                 \* per process: idle, ingest, eval, done, aborted
  sidx,               \* per process: position in INDEX_TICKERS
  latest_close,       \* per process: the dict symbol -> close of main()
  rules,              \* per process: the list returned by the rule load
  ridx,               \* per process: position in rules
  \* observation of the current pass of each process
  pre,                \* the rule table when the pass started
  fetched,            \* symbol -> none, fetch_failed, ok, upsert_failed
  ev,                 \* rule id -> what the pass did with the rule
  \* observation across passes
  hist,               \* rule id -> summary of the earlier passes
  smtp,               \* the mail settings of .env: ok, no_credentials, bad_port
  reeval,             \* per process: the evaluation is a repeated one
  replaced            \* some upsert has overwritten a row with another close

vars == <<volatility_prices, alert_rules, clock, pc, sidx, latest_close,
          rules, ridx, pre, fetched, ev, hist, smtp, reeval, replaced>>

\* -------------------------------------------------------- pure functions
\* str(bool) as stored in the last_result column
BoolStr(b) == IF b THEN "True" ELSE "False"

\* as Get, with a numeric default for a missing key instead of None
Get_Default(lc, symbol) == IF symbol \in DOMAIN lc THEN lc[symbol] ELSE 1

\* latest_close.get(symbol)
Get(lc, symbol) == IF symbol \in DOMAIN lc THEN lc[symbol] ELSE NoPrice

\* now_result for a supported direction
NowResult(price, threshold) == price >= threshold

\* as SupportedDirection, taking "<=" for a direction it can evaluate
SupportedDirection_Any(direction) == direction \in {">=", "<="}

\* the directions evaluate_alerts knows how to evaluate
SupportedDirection(direction) == direction = ">="

\* as PrevResult, ignoring the stored value
PrevResult_AlwaysFalse(last_result) == FALSE

\* as PrevResult, taking every value that is not None for true
PrevResult_Truthy(last_result) == last_result # "None"

\* prev_result = bool(last_result) if last_result is not None else False
PrevResult(last_result) ==
  IF last_result # "None" THEN last_result = "True" ELSE FALSE

\* as ShouldNotify, on the level instead of the edge
ShouldNotify_Level(now_result, prev_result) == now_result

\* the edge test: if now_result and not prev_result
ShouldNotify(now_result, prev_result) == now_result /\ ~prev_result

\* as UpdateFields, storing whether the pass mailed instead of now_result
UpdateFields_OnlyOnEdge(now_result, notified, sent, now) ==
  IF notified /\ sent
    THEN [last_result |-> BoolStr(now_result /\ notified),
          last_triggered_at |-> now]
    ELSE [last_result |-> BoolStr(now_result /\ notified)]

\* as UpdateFields, storing False after a failed mail so that it is retried
UpdateFields_RetryOnFail(now_result, notified, sent, now) ==
  IF notified /\ sent
    THEN [last_result |-> BoolStr(now_result), last_triggered_at |-> now]
    ELSE [last_result |-> BoolStr(now_result /\ ~notified)]

\* as UpdateFields, stamping last_triggered_at whatever the mail call returned
UpdateFields_AlwaysStamp(now_result, notified, sent, now) ==
  IF notified
    THEN [last_result |-> BoolStr(now_result), last_triggered_at |-> now]
    ELSE [last_result |-> BoolStr(now_result)]

\* as UpdateFields, writing an empty last_triggered_at when no mail went out
UpdateFields_ClearStamp(now_result, notified, sent, now) ==
  [last_result |-> BoolStr(now_result),
   last_triggered_at |-> IF notified /\ sent THEN now ELSE NoTime]

\* update_fields as built by evaluate_alerts
UpdateFields(now_result, notified, sent, now) ==
  IF notified /\ sent
    THEN [last_result |-> BoolStr(now_result), last_triggered_at |-> now]
    ELSE [last_result |-> BoolStr(now_result)]

\* as UpdateRule, without the filter on id
UpdateRule_AllRows(table, rule_id, update_fields) ==
  [r \in DOMAIN table |->
     [f \in DOMAIN table[r] |->
        IF f \in DOMAIN update_fields THEN update_fields[f]
                                      ELSE table[r][f]]]

\* supabase.table(ALERT_TABLE).update(update_fields).eq("id", rule_id)
UpdateRule(table, rule_id, update_fields) ==
  [r \in DOMAIN table |->
     IF table[r].id = rule_id
       THEN [f \in DOMAIN table[r] |->
               IF f \in DOMAIN update_fields THEN update_fields[f]
                                             ELSE table[r][f]]
       ELSE table[r]]

\* as OnFetchError, recording a placeholder close for the failed symbol
OnFetchError_Placeholder(lc, logical_name) ==
  [s \in DOMAIN lc \cup {logical_name} |->
     IF s = logical_name THEN 1 ELSE lc[s]]

\* the except branch around fetch_latest_ohlc: latest_close is left alone
OnFetchError(lc, logical_name) == lc

\* continue: the loop goes on with the next rule of the n loaded
Continue(i, n) == i + 1

\* as Attempts, calling send_alert_email again when it returned False
Attempts_Retry(notify, sent) ==
  IF notify THEN (IF sent THEN 1 ELSE 2) ELSE 0

\* the number of calls of send_alert_email the loop body makes for a rule
Attempts(notify, sent) == IF notify THEN 1 ELSE 0

\* as AfterUpdate, with the error of the update leaving the loop
AfterUpdate_Abort(updOK) == IF updOK THEN "eval" ELSE "aborted"

\* the except branch around the rule update: the error is printed and the
\* loop goes on (pc stays in the evaluation)
AfterUpdate(updOK) == "eval"

\* the kinds of mail settings: complete, SMTP_USER / SMTP_PASS missing,
\* SMTP_PORT not a number
SmtpConfigs == {"ok", "no_credentials", "bad_port"}

\* int(os.getenv("SMTP_PORT", "587")) is evaluated before anything else and
\* outside the try: it raises ValueError for a port that is not a number
SendRaises(config) == config = "bad_port"

\* what send_alert_email returns when it returns: False without credentials,
\* else whether the SMTP conversation went through (delivered)
send_alert_email(config, delivered) ==
  IF config = "no_credentials" THEN FALSE ELSE delivered

\* as upsert_ohlc, inserting without the conflict target
upsert_ohlc_Insert(table, row) == table \cup {row}

\* supabase.table(VOL_TABLE).upsert(row, on_conflict="symbol,date")
upsert_ohlc(table, row) ==
  {x \in table : ~(x.symbol = row.symbol /\ x.date = row.date)} \cup {row}

\* as EnabledIds, without the filter on enabled
EnabledIds_All(table) == DOMAIN table

\* .select("*").eq("enabled", True): the ids of the rows returned
EnabledIds(table) == {r \in DOMAIN table : table[r].enabled = TRUE}

\* the store gives no ordering guarantee: every order of the rows
Orders(S) ==
  {s \in [1..Cardinality(S) -> S] : \A i, j \in DOMAIN s : i # j => s[i] # s[j]}

\* ----------------------------------------------------------- observation
\* what a pass did with one rule: the outcome of the loop body, the number of
\* calls of send_alert_email and what the call returned, the result of the
\* update call and whether it carried last_triggered_at
\* (sent: none, ok, fail, raised); loaded is the last_result of the copy of
\* the row the pass evaluated
NoEv == [outcome |-> "none", sends |-> 0, sent |-> "none", update |-> "none",
         wrote_lta |-> FALSE, loaded |-> "none"]

\* summary of the passes so far, per rule.  last, lastUpdate, lastSent: the
\* most recent pass that evaluated the rule.  since: whether the condition was
\* seen false after the latest mail attempt (never: no attempt yet).
\* notifyUpdate: the update result of the pass of the latest mail attempt.
\* sentOk: some mail was sent successfully.
\* stored: the outcome of the most recent evaluation whose update succeeded.
NoHist == [last |-> "none", lastUpdate |-> "none", lastSent |-> "none",
           since |-> "never", notifyUpdate |-> "none", sentOk |-> FALSE,
           stored |-> "none"]

\* ------------------------------------------------------------------- Init
\* the state before the first run, for a rule table and mail settings
InitWith(table, configs) ==
  /\ volatility_prices = {}
  /\ alert_rules = table
  /\ clock = 0
  /\ pc = [p \in Procs |-> "idle"]
  /\ sidx = [p \in Procs |-> 1]
  /\ latest_close = [p \in Procs |-> <<>>]
  /\ rules = [p \in Procs |-> <<>>]
  /\ ridx = [p \in Procs |-> 1]
  /\ pre = [p \in Procs |-> table]
  /\ fetched = [p \in Procs |-> [s \in Symbols |-> "none"]]
  /\ ev = [p \in Procs |-> [r \in RuleIds |-> NoEv]]
  /\ hist = [r \in RuleIds |-> NoHist]
  /\ smtp \in configs
  /\ reeval = [p \in Procs |-> "no"]
  /\ replaced = FALSE

Init == InitWith(InitialRules, SmtpConfigs)

\* ------------------------------------------------------------ main(): start
\* a run of main() begins: latest_close = {}
StartPass(p) ==
  /\ pc[p] \in {"idle", "done", "aborted"}
  /\ clock < MaxPasses
  /\ clock' = clock + 1
  /\ pc' = [pc EXCEPT ![p] = "ingest"]
  /\ sidx' = [sidx EXCEPT ![p] = 1]
  /\ latest_close' = [latest_close EXCEPT ![p] = <<>>]
  /\ rules' = [rules EXCEPT ![p] = <<>>]
  /\ ridx' = [ridx EXCEPT ![p] = 1]
  /\ pre' = [pre EXCEPT ![p] = alert_rules]
  /\ fetched' = [fetched EXCEPT ![p] = [s \in Symbols |-> "none"]]
  /\ ev' = [ev EXCEPT ![p] = [r \in RuleIds |-> NoEv]]
  /\ reeval' = [reeval EXCEPT ![p] = "no"]
  /\ UNCHANGED <<volatility_prices, alert_rules, hist, smtp, replaced>>

\* ------------------------------------------------- main(): ingestion loop
\* fetch_latest_ohlc raises (empty history, network): logged, next symbol
FetchFails(p) ==
  /\ pc[p] = "ingest"
  /\ sidx[p] <= Len(INDEX_TICKERS)
  /\ fetched' = [fetched EXCEPT ![p][INDEX_TICKERS[sidx[p]]] = "fetch_failed"]
  /\ latest_close' =
       [latest_close EXCEPT ![p] = OnFetchError(@, INDEX_TICKERS[sidx[p]])]
  /\ sidx' = [sidx EXCEPT ![p] = @ + 1]
  /\ UNCHANGED <<volatility_prices, alert_rules, clock, pc, rules, ridx, pre,
                 ev, hist, smtp, reeval, replaced>>

\* the row fetch_latest_ohlc returns (only close is used downstream)
fetch_latest_ohlc(symbol_name, d, close) ==
  [symbol |-> symbol_name, date |-> d, close |-> close]

\* fetch succeeds, the upsert succeeds, the close is recorded
FetchAndUpsert(p, d, close) ==
  /\ pc[p] = "ingest"
  /\ sidx[p] <= Len(INDEX_TICKERS)
  /\ LET logical_name == INDEX_TICKERS[sidx[p]]
         ohlc == fetch_latest_ohlc(logical_name, d, close)
     IN /\ volatility_prices' = upsert_ohlc(volatility_prices, ohlc)
        /\ latest_close' =
             [latest_close EXCEPT
                ![p] = [s \in DOMAIN @ \cup {logical_name} |->
                          IF s = logical_name THEN ohlc.close ELSE @[s]]]
        /\ fetched' = [fetched EXCEPT ![p][logical_name] = "ok"]
  /\ sidx' = [sidx EXCEPT ![p] = @ + 1]
  /\ UNCHANGED <<alert_rules, clock, pc, rules, ridx, pre, ev, hist, smtp,
                 reeval>>

\* the loop body of main() on one trading day (the overwrites are not counted)
Ingest(p, d, close) == FetchAndUpsert(p, d, close) /\ UNCHANGED replaced

\* the same loop body, noting whether the key (symbol, date) was already in
\* the table with another close
Reingest(p, d, close) ==
  /\ FetchAndUpsert(p, d, close)
  /\ replaced' = (replaced \/
                    \E x \in volatility_prices :
                      /\ x.symbol = INDEX_TICKERS[sidx[p]]
                      /\ x.date = d
                      /\ x.close # close)

\* fetch succeeds but upsert_ohlc raises: main() has no handler around it,
\* the exception leaves main() and the run ends there
UpsertRaises(p) ==
  /\ pc[p] = "ingest"
  /\ sidx[p] <= Len(INDEX_TICKERS)
  /\ fetched' = [fetched EXCEPT ![p][INDEX_TICKERS[sidx[p]]] = "upsert_failed"]
  /\ pc' = [pc EXCEPT ![p] = "aborted"]
  /\ UNCHANGED <<volatility_prices, alert_rules, clock, sidx, latest_close,
                 rules, ridx, pre, ev, hist, smtp, reeval, replaced>>

\* ------------------------------------------------------- evaluate_alerts()
\* rules = load_enabled_alert_rules(), in whatever order the store returns
\* the enabled rows; the rows are copies, read once per pass
load_enabled_alert_rules(p) ==
  /\ pc[p] = "ingest"
  /\ sidx[p] > Len(INDEX_TICKERS)
  /\ \E order \in Orders(EnabledIds(alert_rules)) :
       rules' = [rules EXCEPT ![p] = [i \in DOMAIN order |-> alert_rules[order[i]]]]
  /\ ridx' = [ridx EXCEPT ![p] = 1]
  /\ pc' = [pc EXCEPT ![p] = "eval"]
  /\ UNCHANGED <<volatility_prices, alert_rules, clock, sidx, latest_close,
                 pre, fetched, ev, hist, smtp, reeval, replaced>>

\* price is None: the rule is skipped
RuleNoPrice(p) ==
  /\ pc[p] = "eval"
  /\ ridx[p] <= Len(rules[p])
  /\ LET rule == rules[p][ridx[p]]
     IN /\ Get(latest_close[p], rule.symbol_code) = NoPrice
        /\ ev' = [ev EXCEPT ![p][rule.id].outcome = "noprice"]
  /\ ridx' = [ridx EXCEPT ![p] = Continue(@, Len(rules[p]))]
  /\ UNCHANGED <<volatility_prices, alert_rules, clock, pc, sidx, latest_close,
                 rules, pre, fetched, hist, smtp, reeval, replaced>>

\* direction is not ">=": the rule is skipped
RuleUnsupportedDirection(p) ==
  /\ pc[p] = "eval"
  /\ ridx[p] <= Len(rules[p])
  /\ LET rule == rules[p][ridx[p]]
     IN /\ Get(latest_close[p], rule.symbol_code) # NoPrice
        /\ ~SupportedDirection(rule.direction)
        /\ ev' = [ev EXCEPT ![p][rule.id].outcome = "baddir"]
  /\ ridx' = [ridx EXCEPT ![p] = Continue(@, Len(rules[p]))]
  /\ UNCHANGED <<volatility_prices, alert_rules, clock, pc, sidx, latest_close,
                 rules, pre, fetched, hist, smtp, reeval, replaced>>

\* the rest of the loop body: compare, mail on the edge, update the rule.
\* sent is what send_alert_email returns (it is only called on the edge, so
\* sent is FALSE otherwise), updOK whether the update succeeds; a failed
\* update is caught and logged and leaves the row as it was
RuleEvaluate(p, sent, updOK) ==
  /\ pc[p] = "eval"
  /\ ridx[p] <= Len(rules[p])
  /\ LET rule == rules[p][ridx[p]]
         rule_id == rule.id
         threshold == rule.threshold
         last_result == rule.last_result
         price == Get(latest_close[p], rule.symbol_code)
         now_result == NowResult(price, threshold)
         prev_result == PrevResult(last_result)
         notify == ShouldNotify(now_result, prev_result)
         mailed == send_alert_email(smtp, sent)
         update_fields == UpdateFields(now_result, notify, mailed, clock)
         met == price >= threshold
         upd == IF updOK THEN "ok" ELSE "fail"
     IN /\ price # NoPrice
        /\ SupportedDirection(rule.direction)
        /\ notify \/ ~sent
        /\ notify => ~SendRaises(smtp)
        /\ alert_rules' = IF updOK
                            THEN UpdateRule(alert_rules, rule_id, update_fields)
                            ELSE alert_rules
        /\ ev' = [ev EXCEPT ![p][rule_id] =
                    [outcome |-> IF met THEN "met" ELSE "notmet",
                     sends |-> @.sends + Attempts(notify, mailed),
                     sent |-> IF notify THEN (IF mailed THEN "ok" ELSE "fail")
                                        ELSE "none",
                     update |-> upd,
                     wrote_lta |-> "last_triggered_at" \in DOMAIN update_fields,
                     loaded |-> last_result]]
        /\ hist' = [hist EXCEPT ![rule_id] =
                    [last |-> IF met THEN "met" ELSE "notmet",
                     lastUpdate |-> upd,
                     lastSent |-> IF notify THEN (IF mailed THEN "ok" ELSE "fail")
                                            ELSE "none",
                     since |-> IF notify THEN "pending"
                               ELSE IF ~met THEN "cleared" ELSE @.since,
                     notifyUpdate |-> IF notify THEN upd ELSE @.notifyUpdate,
                     sentOk |-> @.sentOk \/ (notify /\ mailed),
                     stored |-> IF updOK THEN BoolStr(met) ELSE @.stored]]
  /\ ridx' = [ridx EXCEPT ![p] = @ + 1]
  /\ pc' = [pc EXCEPT ![p] = AfterUpdate(updOK)]
  /\ UNCHANGED <<volatility_prices, clock, sidx, latest_close, rules, pre,
                 fetched, smtp, reeval, replaced>>

\* the edge is detected and send_alert_email raises (SMTP_PORT is not a
\* number): evaluate_alerts has no handler around the call, the exception
\* leaves main() before the rule is updated
RuleSendRaises(p) ==
  /\ pc[p] = "eval"
  /\ ridx[p] <= Len(rules[p])
  /\ LET rule == rules[p][ridx[p]]
         rule_id == rule.id
         price == Get(latest_close[p], rule.symbol_code)
         now_result == NowResult(price, rule.threshold)
         notify == ShouldNotify(now_result, PrevResult(rule.last_result))
     IN /\ price # NoPrice
        /\ SupportedDirection(rule.direction)
        /\ notify
        /\ SendRaises(smtp)
        /\ ev' = [ev EXCEPT ![p][rule_id] =
                    [outcome |-> "met", sends |-> @.sends + 1,
                     sent |-> "raised", update |-> "none",
                     wrote_lta |-> FALSE, loaded |-> rule.last_result]]
        /\ hist' = [hist EXCEPT ![rule_id] =
                    [@ EXCEPT !.last = "met", !.lastUpdate = "none",
                              !.lastSent = "raised", !.since = "pending",
                              !.notifyUpdate = "none"]]
  /\ pc' = [pc EXCEPT ![p] = "aborted"]
  /\ UNCHANGED <<volatility_prices, alert_rules, clock, sidx, latest_close,
                 rules, ridx, pre, fetched, smtp, reeval, replaced>>

\* the loop over the rules is over (or there was no enabled rule)
FinishPass(p) ==
  /\ pc[p] = "eval"
  /\ ridx[p] > Len(rules[p])
  /\ pc' = [pc EXCEPT ![p] = "done"]
  /\ rules' = [rules EXCEPT ![p] = <<>>]
  /\ ridx' = [ridx EXCEPT ![p] = 1]
  /\ UNCHANGED <<volatility_prices, alert_rules, clock, sidx, latest_close,
                 pre, fetched, ev, hist, smtp, reeval, replaced>>

\* evaluate_alerts(latest_close) is called a second time with the dict of
\* the pass that has just finished; the rules are loaded again.  reeval
\* records whether every update of the evaluation before succeeded
Reevaluate(p) ==
  /\ pc[p] = "done"
  /\ clock < MaxPasses
  /\ clock' = clock + 1
  /\ pc' = [pc EXCEPT ![p] = "ingest"]
  /\ sidx' = [sidx EXCEPT ![p] = Len(INDEX_TICKERS) + 1]
  /\ pre' = [pre EXCEPT ![p] = alert_rules]
  /\ ev' = [ev EXCEPT ![p] = [r \in RuleIds |-> NoEv]]
  /\ reeval' = [reeval EXCEPT ![p] =
                  IF \A r \in RuleIds : ev[p][r].update # "fail"
                    THEN "after_ok" ELSE "after_fail"]
  /\ UNCHANGED <<volatility_prices, alert_rules, latest_close, rules, ridx,
                 fetched, hist, smtp, replaced>>

\* ------------------------------------------------------------------ specs
Next ==
  \/ \E p \in SeqProcs : StartPass(p)
  \/ \E p \in SeqProcs : FetchFails(p)
  \/ \E p \in SeqProcs, d \in Dates, close \in Prices : Ingest(p, d, close)
  \/ \E p \in SeqProcs : UpsertRaises(p)
  \/ \E p \in SeqProcs : load_enabled_alert_rules(p)
  \/ \E p \in SeqProcs : RuleNoPrice(p)
  \/ \E p \in SeqProcs : RuleUnsupportedDirection(p)
  \/ \E p \in SeqProcs, sent \in BOOLEAN, updOK \in BOOLEAN :
       RuleEvaluate(p, sent, updOK)
  \/ \E p \in SeqProcs : RuleSendRaises(p)
  \/ \E p \in SeqProcs : FinishPass(p)

Spec == Init /\ [][Next]_vars

\* Spec with repeated evaluations
NextReeval ==
  \/ Next
  \/ \E p \in SeqProcs : Reevaluate(p)

SpecReeval == Init /\ [][NextReeval]_vars

\* the trading days of the ingestion runs
StoreDates == {"2025-01-06", "2025-01-07"}

\* the rule table with every rule switched off
DisabledRules == [r \in RuleIds |-> [InitialRules[r] EXCEPT !.enabled = FALSE]]

InitStore == InitWith(DisabledRules, {"ok"})

\* runs of main() over two trading days; evaluate_alerts finds no enabled
\* rule and returns
NextStore ==
  \/ \E p \in SeqProcs : StartPass(p)
  \/ \E p \in SeqProcs : FetchFails(p)
  \/ \E p \in SeqProcs, d \in StoreDates, close \in Prices : Reingest(p, d, close)
  \/ \E p \in SeqProcs : UpsertRaises(p)
  \/ \E p \in SeqProcs : load_enabled_alert_rules(p)
  \/ \E p \in SeqProcs : FinishPass(p)

SpecStore == InitStore /\ [][NextStore]_vars

\* time passes while a run is in evaluate_alerts (datetime.now moves on)
Tick ==
  /\ \E p \in Procs : pc[p] = "eval"
  /\ clock < MaxPasses
  /\ clock' = clock + 1
  /\ UNCHANGED <<volatility_prices, alert_rules, pc, sidx, latest_close, rules,
                 ridx, pre, fetched, ev, hist, smtp, reeval, replaced>>

\* a run of main() is started by the scheduler, once per process
StartRun(p) ==
  /\ pc[p] = "idle"
  /\ StartPass(p)

\* the rule table with rule 1 as the only enabled rule
OneRule == [r \in RuleIds |-> [InitialRules[r] EXCEPT !.enabled = (r = 1)]]

InitConc == InitWith(OneRule, SmtpConfigs)

\* two runs of main() on the same tables, their steps interleaved
NextConc ==
  \/ \E p \in Procs : StartRun(p)
  \/ \E p \in Procs : FetchFails(p)
  \/ \E p \in Procs, d \in Dates, close \in Prices : Ingest(p, d, close)
  \/ \E p \in Procs : UpsertRaises(p)
  \/ \E p \in Procs : load_enabled_alert_rules(p)
  \/ \E p \in Procs : RuleNoPrice(p)
  \/ \E p \in Procs, sent \in BOOLEAN, updOK \in BOOLEAN :
       RuleEvaluate(p, sent, updOK)
  \/ \E p \in Procs : RuleSendRaises(p)
  \/ \E p \in Procs : FinishPass(p)
  \/ Tick

SpecConc == InitConc /\ [][NextConc]_vars

TypeOK ==
  /\ clock \in 0..MaxPasses
  /\ \A p \in Procs : pc[p] \in {"idle", "ingest", "eval", "done", "aborted"}
  /\ \A r \in RuleIds : alert_rules[r].last_result \in {"None", "True", "False"}

\* ----------------------------------------------------- reading the state
\* the pass of process p holds a close for the symbol of rule r
HasClose(p, r) == pre[p][r].symbol_code \in DOMAIN latest_close[p]

\* that close
CloseOf(p, r) == latest_close[p][pre[p][r].symbol_code]

\* the rule's condition on that close
Met(p, r) == CloseOf(p, r) >= pre[p][r].threshold

\* rule r is one the pass has to evaluate: enabled, ">=", with a close
Evaluable(p, r) ==
  pre[p][r].enabled /\ pre[p][r].direction = ">=" /\ HasClose(p, r)

\* the loop body for rule r runs in this step and compares close and threshold
EvaluatedNow(p, r) ==
  /\ ev[p][r].outcome = "none"
  /\ ev'[p][r].outcome \in {"met", "notmet"}

\* send_alert_email is called for rule r in this step
NotifiedNow(p, r) == ev'[p][r].sends = ev[p][r].sends + 1

\* the pass has left the stored state of rule r as it found it
Untouched(p, r) ==
  /\ alert_rules[r].last_result = pre[p][r].last_result
  /\ alert_rules[r].last_triggered_at = pre[p][r].last_triggered_at

\* ------------------------------------------------------------------ C1
\* C1: in a pass, an enabled ">=" rule whose symbol has a close is mailed if
\* and only if close >= threshold and the stored last_result is not True;
\* it is never mailed when last_result is True or close < threshold.
C1_EdgeTrigger ==
  \A p \in SeqProcs, r \in RuleIds :
    Evaluable(p, r) =>
      LET edge == Met(p, r) /\ pre[p][r].last_result # "True"
      IN /\ ev[p][r].sends > 0 => edge
         /\ pc[p] = "done" => (ev[p][r].sends > 0 <=> edge)

\* a finished pass that mailed a rule whose stored last_result was False and
\* kept silent on a rule whose condition held with last_result True
C1_Witness ==
  /\ pc[1] = "done"
  /\ \E r \in RuleIds :
       Evaluable(1, r) /\ ev[1][r].sends = 1 /\ pre[1][r].last_result = "False"
  /\ \E r \in RuleIds :
       /\ Evaluable(1, r) /\ Met(1, r)
       /\ ev[1][r].sends = 0 /\ pre[1][r].last_result = "True"

\* ------------------------------------------------------------------ C2
\* C2 (as stated): between any two mail attempts for the same rule there is
\* a pass in which the rule's condition was evaluated false, whatever fails
\* in between: no mail attempt is made while no false evaluation has been
\* seen since the previous attempt.
C2_OncePerEvent ==
  [][\A r \in RuleIds :
       NotifiedNow(1, r) => hist[r].since # "pending"]_vars

\* C2 (amended): between two mail attempts for the same rule there is a pass
\* that evaluated the condition false, or the pass of the earlier attempt
\* did not store its update of the rule.
C2_OncePerStoredEvent ==
  [][\A r \in RuleIds :
       NotifiedNow(1, r) =>
         \/ hist[r].since # "pending"
         \/ hist[r].notifyUpdate # "ok"]_vars

\* a rule that was mailed successfully before, was stored False after that,
\* and is mailed again in this pass
C2_Witness ==
  \E r \in RuleIds :
    /\ ev[1][r].sends = 1
    /\ hist[r].since = "pending"
    /\ pre[1][r].last_result = "False"
    /\ pre[1][r].last_triggered_at # NoTime
    /\ hist[r].notifyUpdate = "ok"

\* ------------------------------------------------------------------ C3
\* C3: re-arm after clearing.  If the most recent pass that evaluated a rule
\* found close < threshold and stored last_result = False, the next pass
\* that evaluates it with close >= threshold calls the Notifier, however
\* many mails were sent before.
C3_RearmAfterClearing ==
  [][\A r \in RuleIds :
       ( /\ EvaluatedNow(1, r)
         /\ Met(1, r)
         /\ hist[r].last = "notmet"
         /\ hist[r].lastUpdate = "ok" ) => NotifiedNow(1, r)]_vars

\* the rule was mailed in an earlier pass, then cleared, and the pass that
\* now finds the condition true again has mailed it
C3_Witness ==
  \E r \in RuleIds :
    /\ Evaluable(1, r) /\ Met(1, r)
    /\ ev[1][r].outcome = "met"
    /\ ev[1][r].sends = 1
    /\ pre[1][r].last_result = "False"
    /\ hist[r].sentOk
    /\ pre[1][r].last_triggered_at # NoTime

\* ------------------------------------------------------------------ C4
\* C4 (as stated): after every pass, for every enabled ">=" rule whose
\* symbol had a close, the stored last_result equals (close >= threshold).
C4_LastResultIsOutcome ==
  \A p \in SeqProcs, r \in RuleIds :
    (pc[p] = "done" /\ Evaluable(p, r)) =>
      alert_rules[r].last_result = BoolStr(Met(p, r))

\* C4 (amended): after every pass, for every such rule whose update
\* succeeded the stored last_result equals (close >= threshold), mailed or
\* not; when the update failed last_result is what it was before the pass.
\* At all times last_result is the outcome of the most recent evaluation of
\* the rule whose update succeeded.
C4_LastResultIsStoredOutcome ==
  \A r \in RuleIds :
    /\ \A p \in SeqProcs :
         (pc[p] = "done" /\ Evaluable(p, r)) =>
           /\ ev[p][r].update \in {"ok", "fail"}
           /\ ev[p][r].update = "ok" =>
                alert_rules[r].last_result = BoolStr(Met(p, r))
           /\ ev[p][r].update = "fail" =>
                alert_rules[r].last_result = pre[p][r].last_result
    /\ hist[r].stored # "none" => alert_rules[r].last_result = hist[r].stored
    /\ hist[r].stored = "none" => alert_rules[r].last_result = "None"

\* a finished pass that stored True for a rule it did not mail (the
\* condition stayed true) and False for another rule
C4_Witness ==
  /\ pc[1] = "done"
  /\ \E r \in RuleIds :
       /\ Evaluable(1, r) /\ Met(1, r)
       /\ ev[1][r].update = "ok" /\ ev[1][r].sends = 0
       /\ alert_rules[r].last_result = "True"
  /\ \E r \in RuleIds :
       /\ Evaluable(1, r) /\ ~Met(1, r) /\ ev[1][r].update = "ok"
       /\ pre[1][r].last_result = "True"
       /\ alert_rules[r].last_result = "False"

\* ------------------------------------------------------------------ C5
\* C5: a rule whose symbol has no close in the pass is skipped: no mail
\* attempt, last_result and last_triggered_at as before the pass.
C5_MissingPriceSkips ==
  \A p \in SeqProcs, r \in RuleIds :
    (pc[p] \in {"eval", "done"} /\ ~HasClose(p, r)) =>
      /\ ev[p][r].sends = 0
      /\ ev[p][r].update = "none"
      /\ Untouched(p, r)
      /\ (pc[p] = "done" /\ pre[p][r].enabled) => ev[p][r].outcome = "noprice"

\* a finished pass that skipped a rule with stored state for want of a close
\* while it evaluated and updated another rule
C5_Witness ==
  /\ pc[1] = "done"
  /\ \E r \in RuleIds :
       /\ ev[1][r].outcome = "noprice"
       /\ pre[1][r].last_result = "True"
       /\ pre[1][r].last_triggered_at # NoTime
  /\ \E r \in RuleIds : ev[1][r].update = "ok" /\ ~Untouched(1, r)

\* ------------------------------------------------------------------ C6
\* C6 (as stated): when the edge is detected and the mail fails, the pass
\* still stores last_result = True and leaves last_triggered_at alone, and
\* the next pass that finds the condition true does not mail again.
C6_SendFailureStillStored ==
  [][\A r \in RuleIds :
       /\ (EvaluatedNow(1, r) /\ NotifiedNow(1, r) /\ ev'[1][r].sent = "fail") =>
            /\ alert_rules'[r].last_result = "True"
            /\ alert_rules'[r].last_triggered_at = alert_rules[r].last_triggered_at
       /\ (EvaluatedNow(1, r) /\ Met(1, r) /\ hist[r].lastSent = "fail") =>
            ~NotifiedNow(1, r)]_vars

\* C6 (amended): when the edge is detected and the mail fails, the pass
\* still issues the update with last_result = True and without
\* last_triggered_at; if that update succeeds last_result is True and the
\* next pass that finds the condition true does not mail again; if the
\* update fails the stored rule is unchanged.  In both cases
\* last_triggered_at is left alone.
C6_SendFailureUpdateIssued ==
  [][\A r \in RuleIds :
       /\ (EvaluatedNow(1, r) /\ NotifiedNow(1, r) /\ ev'[1][r].sent = "fail") =>
            /\ ev'[1][r].update \in {"ok", "fail"}
            /\ ~ev'[1][r].wrote_lta
            /\ ev'[1][r].update = "ok" => alert_rules'[r].last_result = "True"
            /\ ev'[1][r].update = "fail" =>
                 alert_rules'[r].last_result = alert_rules[r].last_result
            /\ alert_rules'[r].last_triggered_at = alert_rules[r].last_triggered_at
       /\ ( /\ EvaluatedNow(1, r) /\ Met(1, r)
            /\ hist[r].lastSent = "fail" /\ hist[r].lastUpdate = "ok" ) =>
            ~NotifiedNow(1, r)]_vars

\* the pass before failed to mail the rule and stored True; this pass finds
\* the condition still true and has not mailed
C6_Witness ==
  \E r \in RuleIds :
    /\ Evaluable(1, r) /\ Met(1, r)
    /\ ev[1][r].outcome = "met" /\ ev[1][r].sends = 0
    /\ pre[1][r].last_result = "True"
    /\ pre[1][r].last_triggered_at = NoTime
    /\ ~hist[r].sentOk
    /\ hist[r].since = "pending"

\* ------------------------------------------------------------------ C7
\* C7 (as stated): a pass changes last_triggered_at of a rule if and only
\* if it called the Notifier for the rule and the call reported success; it
\* is absent until the first successful send.
C7_TriggeredIffSent ==
  \A r \in RuleIds :
    /\ \A p \in SeqProcs :
         pc[p] = "done" =>
           ( alert_rules[r].last_triggered_at # pre[p][r].last_triggered_at
               <=> (ev[p][r].sends > 0 /\ ev[p][r].sent = "ok") )
    /\ ~hist[r].sentOk => alert_rules[r].last_triggered_at = NoTime

\* C7 (amended): the update a pass issues for a rule carries
\* last_triggered_at if and only if the pass called the Notifier for the
\* rule and the call reported success; the stored last_triggered_at changes
\* if and only if, in addition, that update succeeded, and it is then the
\* time of the pass.  It is absent until the first successful send.
C7_TriggeredIffSentAndStored ==
  \A r \in RuleIds :
    /\ \A p \in SeqProcs :
         /\ ev[p][r].wrote_lta <=> (ev[p][r].sends > 0 /\ ev[p][r].sent = "ok")
         /\ alert_rules[r].last_triggered_at # pre[p][r].last_triggered_at
              <=> (ev[p][r].sent = "ok" /\ ev[p][r].update = "ok")
         /\ (ev[p][r].sent = "ok" /\ ev[p][r].update = "ok") =>
              alert_rules[r].last_triggered_at = clock
    /\ ~hist[r].sentOk => alert_rules[r].last_triggered_at = NoTime

\* a finished pass that stamped one rule after a successful mail, replacing
\* an older stamp
C7_Witness ==
  /\ pc[1] = "done"
  /\ \E r \in RuleIds :
       /\ ev[1][r].sent = "ok" /\ ev[1][r].update = "ok"
       /\ pre[1][r].last_triggered_at # NoTime
       /\ alert_rules[r].last_triggered_at = clock
       /\ alert_rules[r].last_triggered_at # pre[1][r].last_triggered_at

\* ------------------------------------------------------------------ C8
\* C8: a rule whose direction is not ">=" is skipped in every pass whatever
\* the close and the threshold: no mail attempt, no change of last_result or
\* last_triggered_at, and the other rules of the pass are still evaluated.
C8_UnsupportedDirectionSkips ==
  \A p \in SeqProcs, r \in RuleIds :
    pre[p][r].direction # ">=" =>
      /\ ev[p][r].sends = 0
      /\ ev[p][r].update = "none"
      /\ ev[p][r].outcome \in {"none", "noprice", "baddir"}
      /\ Untouched(p, r)
      /\ pc[p] = "done" =>
           /\ (pre[p][r].enabled /\ HasClose(p, r)) => ev[p][r].outcome = "baddir"
           /\ \A q \in RuleIds :
                Evaluable(p, q) => ev[p][q].outcome \in {"met", "notmet"}

\* a finished pass that skipped the "<=" rule, whose condition read as ">="
\* would hold, and evaluated and updated the other rule on the same symbol
C8_Witness ==
  /\ pc[1] = "done"
  /\ \E r, q \in RuleIds :
       /\ ev[1][r].outcome = "baddir"
       /\ CloseOf(1, r) >= pre[1][r].threshold
       /\ pre[1][q].symbol_code = pre[1][r].symbol_code
       /\ ev[1][q].outcome = "met" /\ ev[1][q].update = "ok"

\* ------------------------------------------------------------------ C9
\* C9: if the fetch of one symbol fails, that symbol is not upserted and has
\* no close in the pass, while every other symbol whose fetch succeeds is
\* upserted and recorded and every enabled rule on it is handled in the same
\* pass, wherever the failing symbol stands in the order.
C9_FetchFailureIsolated ==
  \A p \in SeqProcs, a \in Symbols :
    (pc[p] \in {"done", "aborted"} /\ fetched[p][a] = "fetch_failed") =>
      /\ a \notin DOMAIN latest_close[p]
      /\ \A b \in Symbols \ {a} :
           fetched[p][b] \in {"ok", "upsert_failed"} =>
             /\ fetched[p][b] = "ok"
             /\ b \in DOMAIN latest_close[p]
             /\ \E x \in volatility_prices :
                  x.symbol = b /\ x.close = latest_close[p][b]
             /\ \A r \in RuleIds :
                  (pre[p][r].enabled /\ pre[p][r].symbol_code = b) =>
                    ev[p][r].outcome \in {"met", "notmet", "baddir"}

\* ------------------------------------------------------------------ C10
\* C10: a failure of the upsert of one symbol is recovered: the ingestion
\* loop goes on with the remaining symbols and the rules are evaluated in
\* that pass; an upsert failure never ends the pass.
C10_UpsertFailureRecovered ==
  \A p \in SeqProcs, s \in Symbols :
    fetched[p][s] = "upsert_failed" => pc[p] \in {"ingest", "eval", "done"}

\* ------------------------------------------------------------------ C11
\* the pass has called the Notifier for rule r exactly when r was on the
\* rising edge, has issued its update, and the row holds the result of that
\* update when it succeeded
EvaluatedAndPersisted(p, r) ==
  LET edge == Met(p, r) /\ pre[p][r].last_result # "True"
  IN /\ ev[p][r].outcome = (IF Met(p, r) THEN "met" ELSE "notmet")
     /\ ev[p][r].sends = (IF edge THEN 1 ELSE 0)
     /\ ev[p][r].update \in {"ok", "fail"}
     /\ ev[p][r].update = "ok" =>
          /\ alert_rules[r].last_result = BoolStr(Met(p, r))
          /\ alert_rules[r].last_triggered_at =
               (IF ev[p][r].sent = "ok" THEN clock
                                        ELSE pre[p][r].last_triggered_at)

\* C11: if the update of one rule fails, every other enabled rule of the pass
\* is still evaluated, mailed if on the rising edge, and persisted: the
\* failed update is not what ends a pass, the step after it is the next rule
\* or the end of the loop, and a pass that reaches the end of the loop has
\* handled every other enabled rule.
C11_UpdateFailureIsolated ==
  \A p \in SeqProcs :
    /\ pc[p] = "aborted" =>
         \/ \E s \in Symbols : fetched[p][s] = "upsert_failed"
         \/ \E r \in RuleIds : ev[p][r].sent = "raised"
    /\ pc[p] = "done" =>
         \A r \in RuleIds :
           ev[p][r].update = "fail" =>
             \A q \in RuleIds \ {r} :
               pre[p][q].enabled =>
                 /\ ev[p][q].outcome # "none"
                 /\ Evaluable(p, q) => EvaluatedAndPersisted(p, q)

\* the update of the first rule of the pass failed, and the second rule was
\* then found on the rising edge, mailed and stored
C11_Witness ==
  /\ pc[1] = "eval"
  /\ ridx[1] = 3
  /\ ev[1][rules[1][1].id].update = "fail"
  /\ ev[1][rules[1][2].id].sends = 1
  /\ ev[1][rules[1][2].id].sent = "ok"
  /\ ev[1][rules[1][2].id].update = "ok"
  /\ alert_rules[rules[1][2].id].last_result = "True"
  /\ alert_rules[rules[1][2].id].last_triggered_at = clock

\* ------------------------------------------------------------------ C12
\* C12: idempotent re-evaluation.  An evaluation run again on the same
\* latest_close, right after an evaluation whose rule updates all succeeded,
\* calls the Notifier for no rule and leaves last_result and
\* last_triggered_at of every rule as they were.
C12_IdempotentReevaluation ==
  \A p \in SeqProcs :
    reeval[p] = "after_ok" =>
      \A r \in RuleIds : ev[p][r].sends = 0 /\ Untouched(p, r)

\* a finished repeated evaluation that found one rule still true, mailed by
\* the evaluation before, and wrote its row again
C12_Witness ==
  /\ pc[1] = "done"
  /\ reeval[1] = "after_ok"
  /\ \E r \in RuleIds :
       /\ ev[1][r].outcome = "met" /\ ev[1][r].update = "ok"
       /\ pre[1][r].last_triggered_at = clock - 1
  /\ \E r \in RuleIds : ev[1][r].outcome = "notmet" /\ ev[1][r].update = "ok"

\* ------------------------------------------------------------------ C13
\* C13: a rule with enabled = false is left out of every pass: it is never
\* loaded, never mailed, and its last_result and last_triggered_at are never
\* changed, whatever the closes are.
C13_DisabledRuleExcluded ==
  \A p \in SeqProcs, r \in RuleIds :
    ~alert_rules[r].enabled =>
      /\ \A i \in DOMAIN rules[p] : rules[p][i].id # r
      /\ ev[p][r] = NoEv
      /\ alert_rules[r].last_result = InitialRules[r].last_result
      /\ alert_rules[r].last_triggered_at = InitialRules[r].last_triggered_at

\* a finished pass in which the disabled rule would have been on the rising
\* edge, and the enabled rule on the same symbol was mailed
C13_Witness ==
  /\ pc[1] = "done"
  /\ \E r, q \in RuleIds :
       /\ ~alert_rules[r].enabled
       /\ HasClose(1, r) /\ Met(1, r) /\ pre[1][r].direction = ">="
       /\ alert_rules[q].enabled
       /\ pre[1][q].symbol_code = pre[1][r].symbol_code
       /\ ev[1][q].sends = 1 /\ ev[1][q].update = "ok"

\* ------------------------------------------------------------------ C14
\* every row fetch_latest_ohlc can return
AllRows ==
  {fetch_latest_ohlc(s, d, c) : s \in Symbols, d \in StoreDates, c \in Prices}

\* no two rows of the table share (symbol, date)
OneRowPerKey(table) ==
  \A x, y \in table : (x.symbol = y.symbol /\ x.date = y.date) => x = y

\* C14: ingestion is idempotent: the price table holds at most one row per
\* (symbol, date); an upsert of an existing key replaces the row with the
\* latest values and leaves the other keys alone; upserting the same
\* observation twice gives the same table as upserting it once.
C14_IdempotentIngestion ==
  /\ OneRowPerKey(volatility_prices)
  /\ \A row \in AllRows :
       LET once == upsert_ohlc(volatility_prices, row)
       IN /\ row \in once
          /\ OneRowPerKey(once)
          /\ \A x \in volatility_prices :
               (x.symbol # row.symbol \/ x.date # row.date) => x \in once
          /\ \A x \in once : x = row \/ x \in volatility_prices
          /\ upsert_ohlc(once, row) = once
  /\ \A p \in SeqProcs, s \in Symbols :
       fetched[p][s] = "ok" =>
         \E x \in volatility_prices :
           x.symbol = s /\ x.close = latest_close[p][s]

\* a key was overwritten with another close, and both days of both indices
\* are in the table
C14_Witness ==
  /\ replaced
  /\ Cardinality(volatility_prices) = 4
  /\ pc[1] = "done"

\* ------------------------------------------------------------------ C15
\* every symbol of the pass of p has been tried and its fetch failed
AllFetchesFailed(p) == \A s \in Symbols : fetched[p][s] = "fetch_failed"

\* C15: when every fetch of a pass fails, the ingestion loop still completes
\* with an empty latest_close and nothing is raised; the evaluation runs,
\* skips every rule for lack of a price, mails nobody and changes no rule.
C15_AllFetchesFail ==
  \A p \in SeqProcs :
    AllFetchesFailed(p) =>
      /\ pc[p] \in {"ingest", "eval", "done"}
      /\ sidx[p] = Len(INDEX_TICKERS) + 1
      /\ latest_close[p] = <<>>
      /\ \A r \in RuleIds :
           /\ ev[p][r].outcome \in {"none", "noprice"}
           /\ ev[p][r].sends = 0
           /\ ev[p][r].update = "none"
           /\ Untouched(p, r)
      /\ pc[p] = "done" =>
           \A r \in RuleIds :
             pre[p][r].enabled => ev[p][r].outcome = "noprice"

\* a later pass in which every fetch failed has finished, while a rule was
\* left by an earlier pass with last_result False, that is, ready to fire
C15_Witness ==
  /\ AllFetchesFailed(1)
  /\ pc[1] = "done"
  /\ \E r \in RuleIds :
       /\ ev[1][r].outcome = "noprice"
       /\ alert_rules[r].last_result = "False"

\* ------------------------------------------------------------------ C16
\* the loop over the loaded rules has processed its last rule
LoopOver(p) ==
  \/ pc[p] = "done"
  \/ pc[p] = "eval" /\ ridx[p] > Len(rules[p])

\* evaluate_alerts has ended: the loop is over, or the run was ended while
\* the loop was at some rule
EvaluationEnded(p) ==
  \/ LoopOver(p)
  \/ pc[p] = "aborted" /\ Len(rules[p]) > 0

\* what a pass does with rule r, written from the table at the start of the
\* pass, latest_close and the results of the rule's own send and update
\* only; the position of the rule in the loaded list does not occur
OrderFreeOutcome(p, r) ==
  IF ~pre[p][r].enabled
    THEN ev[p][r] = NoEv /\ alert_rules[r] = pre[p][r]
  ELSE IF ~HasClose(p, r)
    THEN /\ ev[p][r].outcome = "noprice" /\ ev[p][r].sends = 0
         /\ alert_rules[r] = pre[p][r]
  ELSE IF pre[p][r].direction # ">="
    THEN /\ ev[p][r].outcome = "baddir" /\ ev[p][r].sends = 0
         /\ alert_rules[r] = pre[p][r]
  ELSE LET edge == Met(p, r) /\ pre[p][r].last_result # "True"
       IN /\ ev[p][r].outcome = (IF Met(p, r) THEN "met" ELSE "notmet")
          /\ ev[p][r].sends = (IF edge THEN 1 ELSE 0)
          /\ ev[p][r].sent \in (IF edge THEN {"ok", "fail", "raised"}
                                        ELSE {"none"})
          /\ ev[p][r].update \in (IF ev[p][r].sent = "raised"
                                    THEN {"none"} ELSE {"ok", "fail"})
          /\ alert_rules[r] =
               IF ev[p][r].update # "ok" THEN pre[p][r]
               ELSE [pre[p][r] EXCEPT
                       !.last_result = BoolStr(Met(p, r)),
                       !.last_triggered_at =
                          IF ev[p][r].sent = "ok" THEN clock ELSE @]

\* C16: the rules that are mailed and the rule table after a pass do not
\* depend on the order in which the rule load returned the rules, also when
\* sends or updates fail: once evaluate_alerts has ended, what happened to
\* each rule is determined by the rule, its close and the results of its own
\* send and update.
C16_OrderIndependent ==
  \A p \in SeqProcs :
    EvaluationEnded(p) => \A r \in RuleIds : OrderFreeOutcome(p, r)

\* ------------------------------------------------------------------ C17
\* C17: send_alert_email never raises into evaluate_alerts: every failure of
\* sending, a missing or invalid mail configuration included, comes back as
\* False, so the rule that was to be mailed is still updated and the pass
\* goes on to the later rules.
C17_SendNeverRaises ==
  \A p \in SeqProcs :
    /\ \A r \in RuleIds :
         /\ ev[p][r].sent # "raised"
         /\ ev[p][r].sends > 0 => ev[p][r].update \in {"ok", "fail"}
    /\ pc[p] = "aborted" => \E s \in Symbols : fetched[p][s] = "upsert_failed"

\* ------------------------------------------------------------------ C18
\* C18: within one pass send_alert_email is called at most once per rule; a
\* send that failed is not tried again in that pass, and the update of the
\* rule comes after that single attempt and carries its result.
C18_AtMostOneSend ==
  \A p \in SeqProcs, r \in RuleIds :
    /\ ev[p][r].sends <= 1
    /\ ev[p][r].sends = 0 <=> ev[p][r].sent = "none"
    /\ ev[p][r].sent = "fail" =>
         ev[p][r].update \in {"ok", "fail"} /\ ~ev[p][r].wrote_lta
    /\ ev[p][r].sent = "ok" =>
         ev[p][r].update \in {"ok", "fail"} /\ ev[p][r].wrote_lta

\* a finished pass in which the send for a rule failed and the update that
\* followed stored last_result True without last_triggered_at
C18_Witness ==
  /\ pc[1] = "done"
  /\ \E r \in RuleIds :
       /\ ev[1][r].sends = 1
       /\ ev[1][r].sent = "fail"
       /\ ev[1][r].update = "ok"
       /\ alert_rules[r].last_result = "True"
       /\ alert_rules[r].last_triggered_at = NoTime

\* ------------------------------------------------------------------ C20
\* the columns of a rule the engine never writes
StaticFields ==
  {"id", "symbol_code", "direction", "threshold", "severity", "email",
   "enabled"}

\* C20: the write of the engine for a rule changes only last_result of that
\* rule and, after a successful send, its last_triggered_at: no step changes
\* id, symbol_code, direction, threshold, severity, email or enabled of any
\* rule, adds or removes a rule, or changes a rule other than the one being
\* evaluated in that step.
C20_WriteFrame ==
  [][/\ DOMAIN alert_rules' = DOMAIN alert_rules
     /\ \A r \in RuleIds :
          /\ DOMAIN alert_rules'[r] = DOMAIN alert_rules[r]
          /\ \A f \in StaticFields : alert_rules'[r][f] = alert_rules[r][f]
          /\ alert_rules'[r] # alert_rules[r] => EvaluatedNow(1, r)
          /\ alert_rules'[r].last_triggered_at # alert_rules[r].last_triggered_at
               => (EvaluatedNow(1, r) /\ ev'[1][r].sent = "ok")]_vars

\* a pass has changed last_result and last_triggered_at of one rule while
\* another enabled rule on the other symbol, evaluated in the same pass,
\* keeps a different stored state
C20_Witness ==
  /\ pc[1] = "done"
  /\ \E r, q \in RuleIds :
       /\ r # q
       /\ ev[1][r].sent = "ok" /\ ev[1][r].update = "ok"
       /\ alert_rules[r].last_result = "True"
       /\ alert_rules[r].last_triggered_at = clock
       /\ ev[1][q].outcome = "notmet" /\ ev[1][q].update = "ok"
       /\ alert_rules[q].last_result = "False"
       /\ alert_rules[q].last_triggered_at = NoTime

\* ------------------------------------------------------------------ C19
\* process q is in a run that loaded rule r with last_result not True, called
\* send_alert_email for it and had its update applied
StampedBy(q, r) ==
  /\ ev[q][r].loaded # "True"
  /\ ev[q][r].sends = 1
  /\ ev[q][r].sent = "ok"
  /\ ev[q][r].update = "ok"

\* process p evaluates rule r in this step, on the rising edge of its own
\* copy, after the other process did, and its update is applied
SecondWriter(p, r) ==
  /\ EvaluatedNow(p, r)
  /\ NotifiedNow(p, r)
  /\ ev'[p][r].update = "ok"
  /\ \E q \in Procs \ {p} : StampedBy(q, r)

\* every run decides on the copy it loaded: with close >= threshold and a
\* loaded last_result that is not True it calls send_alert_email, whatever
\* the other run has stored since
BothNotify ==
  \A p \in Procs, r \in RuleIds :
    EvaluatedNow(p, r) =>
      ( NotifiedNow(p, r) <=> (Met(p, r) /\ ev'[p][r].loaded # "True") )

\* C19 (as stated): two overlapping runs that both loaded the rule with
\* last_result not True both call send_alert_email, and the stored
\* last_result and last_triggered_at are then those of the update applied
\* last.
C19_LastUpdateWins ==
  [][/\ BothNotify
     /\ \A p \in Procs, r \in RuleIds :
          SecondWriter(p, r) =>
            /\ alert_rules'[r].last_result = "True"
            /\ alert_rules'[r].last_triggered_at = clock]_vars

\* C19 (amended): two overlapping runs that both loaded the rule with
\* last_result not True both call send_alert_email; the stored last_result
\* is that of the update applied last, and the stored last_triggered_at is
\* that of the last applied update that carried one: an update that follows
\* a failed send leaves the stamp of the other run in place.
C19_LastUpdateWinsPerField ==
  [][/\ BothNotify
     /\ \A p \in Procs, r \in RuleIds :
          /\ SecondWriter(p, r) =>
               /\ alert_rules'[r].last_result = "True"
               /\ alert_rules'[r].last_triggered_at =
                    IF ev'[p][r].sent = "ok"
                      THEN clock
                      ELSE alert_rules[r].last_triggered_at
          /\ (EvaluatedNow(p, r) /\ ev'[p][r].update = "ok") =>
               alert_rules'[r].last_result = BoolStr(Met(p, r))]_vars

\* both runs loaded rule 1 before either wrote it and both called
\* send_alert_email; the first was delivered and stamped the rule, the send
\* of the second failed and its update, applied last and later, left that
\* stamp in place
C19_Witness ==
  /\ \E p \in Procs :
       /\ ev[p][1].loaded = "None" /\ ev[p][1].sends = 1
       /\ ev[p][1].sent = "ok" /\ ev[p][1].update = "ok"
       /\ \E q \in Procs \ {p} :
            /\ ev[q][1].loaded = "None" /\ ev[q][1].sends = 1
            /\ ev[q][1].sent = "fail" /\ ev[q][1].update = "ok"
  /\ hist[1].lastSent = "fail"
  /\ alert_rules[1].last_result = "True"
  /\ alert_rules[1].last_triggered_at # NoTime
  /\ alert_rules[1].last_triggered_at < clock

====
